---- MODULE Spec2Model ----
(***************************************************************************)
(* Job-application tracker backend (main.py, schemas.py): the CRUD         *)
(* handlers over the "jobapplication" collection, the pydantic validation  *)
(* of their payloads and the public-form normalisation.                    *)
(*                                                                         *)
(* JSON and BSON values are tagged records [t, v]; text is a tuple of      *)
(* one-character strings; a payload or a document is a function from key   *)
(* names to values, an absent key being outside its DOMAIN.                *)
(* The modelled fields are company, position, status, notes, salary_min    *)
(* and tags; the remaining optional text fields are handled by the code    *)
(* exactly as notes is, salary_max exactly as salary_min.                  *)
(***************************************************************************)
EXTENDS Integers, Sequences, FiniteSets, TLC

VARIABLES dbConfigured, docs, nextId, now, resp, pending, deleted, updated, created

vars == <<dbConfigured, docs, nextId, now, resp, pending, deleted, updated, created>>

(* ---------------------------- bounds ---------------------------------- *)
MaxDocs == 2
MaxClock == 1
OidLen == 2

(* ---------------------------- values ---------------------------------- *)
Null == [t |-> "null"]
Str(s) == [t |-> "str", v |-> s]
Num(n) == [t |-> "num", v |-> n]
Arr(a) == [t |-> "list", v |-> a]
Oid(n) == [t |-> "oid", v |-> n]
Dt(n) == [t |-> "datetime", v |-> n]

NoDoc == [k \in {} |-> Null]

Restrict(f, S) == [k \in S |-> f[k]]

(* d.get(k): the value under k, None when the key is absent *)
Get(d, k) == IF k \in DOMAIN d THEN d[k] ELSE Null

(* ---------------------------- ObjectId -------------------------------- *)
HexDigits == <<"0", "1", "2", "3", "4", "5", "6", "7",
               "8", "9", "a", "b", "c", "d", "e", "f">>

HexValue(c) == CHOOSE k \in 0..15 : HexDigits[k + 1] = c

IsHex(c) == \E k \in 0..15 : HexDigits[k + 1] = c

RECURSIVE Pow16(_)
Pow16(e) == IF e = 0 THEN 1 ELSE 16 * Pow16(e - 1)

(* bson.ObjectId.is_valid: a string of the fixed length, all hex digits *)
WellFormed(s) == Len(s) = OidLen /\ \A i \in 1..Len(s) : IsHex(s[i])

RECURSIVE ParseHex(_)
ParseHex(s) ==
    IF Len(s) = 0 THEN 0
    ELSE 16 * ParseHex(SubSeq(s, 1, Len(s) - 1)) + HexValue(s[Len(s)])

(* ObjectId(app_id), for a well-formed app_id *)
ObjectId(s) == Oid(ParseHex(s))

(* str(ObjectId): the fixed-length lower-case hex text *)
OidStr(o) == [i \in 1..OidLen |-> HexDigits[((o.v \div Pow16(OidLen - i)) % 16) + 1]]

(* datetime.isoformat() *)
isoformat(d) == Str(<<"T", HexDigits[d.v + 1]>>)

(* ---------------------------- schemas --------------------------------- *)
Fields == {"company", "position", "status", "notes", "salary_min", "tags"}

TextFields == {"company", "position", "status", "notes"}

(* the declared type of a field accepts the (non-null) value *)
TypeOk(k, x) ==
    IF k \in TextFields THEN x.t = "str"
    ELSE IF k = "salary_min" THEN x.t = "num"
    ELSE x.t = "list" /\ \A i \in 1..Len(x.v) : x.v[i].t = "str"

(* JobApplication: company, position required str; status str; notes
   Optional[str]; salary_min Optional[float] with ge=0; tags List[str] *)
Required == {"company", "position"}

Nullable == {"notes", "salary_min"}

ConstraintOk(k, x) == k = "salary_min" => x.v >= 0

FieldDefault(k) ==
    IF k = "status" THEN Str(<<"a", "p", "p", "l", "i", "e", "d">>)
    ELSE IF k = "tags" THEN Arr(<<>>)
    ELSE Null

ValidCreate(p) ==
    /\ Required \subseteq DOMAIN p
    /\ \A k \in DOMAIN p \cap Fields :
          IF p[k] = Null THEN k \in Nullable
          ELSE TypeOk(k, p[k]) /\ ConstraintOk(k, p[k])

(* the validated model's dump: every declared field, defaults filled in,
   keys the schema does not declare dropped *)
CreateDump(p) == [k \in Fields |-> IF k \in DOMAIN p THEN p[k] ELSE FieldDefault(k)]

(* UpdateJobApplication: every field Optional[...] = None, no constraint *)
ValidUpdate(p) ==
    \A k \in DOMAIN p \cap Fields : p[k] = Null \/ TypeOk(k, p[k])

(* payload.model_dump(exclude_none=True) *)
update_dict(p) == Restrict(p, {k \in DOMAIN p \cap Fields : p[k] # Null})

(* ---------------------------- document store --------------------------- *)
(* find_one({"_id": oid}): the document, or None *)
find_one(ds, oid) ==
    IF \E i \in 1..Len(ds) : ds[i]["_id"] = oid
    THEN ds[CHOOSE i \in 1..Len(ds) : ds[i]["_id"] = oid]
    ELSE Null

(* update_one(...).matched_count *)
matched_count(ds, oid) == Cardinality({i \in 1..Len(ds) : ds[i]["_id"] = oid})

(* {"$set": ud} applied to one document *)
SetFields(d, ud) ==
    [k \in DOMAIN d \cup DOMAIN ud |-> IF k \in DOMAIN ud THEN ud[k] ELSE d[k]]

(* update_one({"_id": oid}, {"$set": ud}) *)
update_one(ds, oid, ud) ==
    [i \in 1..Len(ds) |-> IF ds[i]["_id"] = oid THEN SetFields(ds[i], ud) ELSE ds[i]]

KeepOthers(d, oid) == d["_id"] # oid

(* delete_one({"_id": oid}) *)
delete_one(ds, oid) == SelectSeq(ds, LAMBDA d : KeepOthers(d, oid))

deleted_count_unchecked(ds, oid) == 1

(* delete_one(...).deleted_count *)
deleted_count(ds, oid) == Len(ds) - Len(delete_one(ds, oid))

(* create_document: the dumped model inserted under a fresh store-assigned
   identifier *)
create_document(ds, data, n) == Append(ds, SetFields(data, "_id" :> Oid(n)))

(* ---------------------------- to_public -------------------------------- *)
Truthy(x) == x # Null

to_public_raw(doc) == [k \in DOMAIN doc \cup {"id"} |-> IF k = "id" THEN Null ELSE doc[k]]

to_public(doc) ==
    LET hasId == Truthy(Get(doc, "_id"))
        keys == IF hasId THEN (DOMAIN doc \ {"_id"}) \cup {"id"}
                ELSE DOMAIN doc \cup {"id"}
    IN  [k \in keys |->
            IF k = "id" THEN (IF hasId THEN Str(OidStr(doc["_id"])) ELSE Null)
            ELSE IF doc[k].t = "datetime" THEN isoformat(doc[k])
            ELSE doc[k]]

(* ---------------------------- list filter ------------------------------ *)
Lower(c) == IF c = "A" THEN "a" ELSE IF c = "B" THEN "b" ELSE c

(* one pattern character against one subject character, option "i": the
   pattern is handed to the store as a regular expression, where "." stands
   for any character *)
CharMatch(pc, c) == pc = "." \/ Lower(pc) = Lower(c)

(* {"$regex": q, "$options": "i"} on a text value: an unanchored search *)
RegexSearch(q, s) ==
    \E i \in 1..(Len(s) - Len(q) + 1) :
        \A j \in 1..Len(q) : CharMatch(q[j], s[i + j - 1])

RegexField(q, x) == x.t = "str" /\ RegexSearch(q, x.v)

(* {"tags": {"$elemMatch": {"$regex": q, "$options": "i"}}} *)
RegexTags(q, x) == x.t = "list" /\ \E i \in 1..Len(x.v) : RegexField(q, x.v[i])

(* "if status:" / "if q:": None and the empty string add no condition *)
Supplied(x) == x # Null /\ x.v # <<>>

(* the filter document built by list_applications, as a predicate *)
Matches(d, status, q) ==
    /\ Supplied(status) => Get(d, "status") = status
    /\ Supplied(q) =>
          \/ RegexField(q.v, Get(d, "company"))
          \/ RegexField(q.v, Get(d, "position"))
          \/ RegexField(q.v, Get(d, "notes"))
          \/ RegexTags(q.v, Get(d, "tags"))

Min(a, b) == IF a < b THEN a ELSE b

(* get_documents(collection, filt, limit): find(filt).limit(limit), in store
   order *)
get_documents(ds, status, q, limit) ==
    LET hits == SelectSeq(ds, LAMBDA d : Matches(d, status, q))
    IN  SubSeq(hits, 1, Min(limit, Len(hits)))

(* [to_public(d) for d in docs] *)
PublicAll(ds) == [i \in 1..Len(ds) |-> to_public(ds[i])]

(* ---------------------------- requests --------------------------------- *)
tAb == <<"A", "b">>
tSaved == <<"s", "a", "v", "e", "d">>

CreatePayloads ==
    { ("company" :> Str(tAb)) @@ ("position" :> Str(<<"x">>)),
      ("company" :> Str(<<>>)) @@ ("position" :> Str(<<"x">>))
          @@ ("status" :> Str(tSaved)) @@ ("notes" :> Str(<<"a", "b">>))
          @@ ("tags" :> Arr(<<Str(<<"B">>)>>)) @@ ("updated_at" :> Str(<<"u">>)),
      ("position" :> Str(<<"x">>)),
      ("company" :> Str(tAb)) @@ ("position" :> Str(<<"x">>))
          @@ ("salary_min" :> Num(-1)) }

(* identifiers a client may send: those of the documents that can exist, one
   well-formed identifier no document ever has, and two malformed ones (a
   wrong length, a character that is no hex digit) *)
StoreIds == {OidStr(Oid(n)) : n \in 1..(MaxDocs + 1)}

BadIds == {<<"z">>, [i \in 1..OidLen |-> "z"]}

AppIds == StoreIds \cup BadIds

EmptyPayload == NoDoc

(* payloads that set at least one field to a non-null value *)
SettingPayloads ==
    { ("salary_min" :> Num(-1)),
      ("status" :> Str(tSaved)) @@ ("updated_at" :> Str(<<"u">>)) }

(* payloads whose model_dump(exclude_none=True) is empty *)
EmptyDumpPayloads == {EmptyPayload, ("updated_at" :> Str(<<"u">>)), ("notes" :> Null)}

IllTypedPayloads == {("salary_min" :> Str(<<"x">>))}

UpdatePayloads == SettingPayloads \cup EmptyDumpPayloads \cup IllTypedPayloads

FirstId == OidStr(Oid(1))

(* the empty payload with every identifier; a status change with every
   identifier but one malformed one; the other payloads on the first
   document's identifier *)
UpdateInputs ==
    (AppIds \X {EmptyPayload})
        \cup ((StoreIds \cup {<<"z">>}) \X {("status" :> Str(tSaved)) @@ ("updated_at" :> Str(<<"u">>))})
        \cup ({FirstId} \X UpdatePayloads)

DefaultLimit == 100

ListInputs ==
    { <<Null, Null, DefaultLimit>>,
      <<Null, Null, 1>>,
      <<Str(tSaved), Null, DefaultLimit>>,
      <<Str(<<>>), Null, DefaultLimit>>,
      <<Null, Str(<<"a", ".">>), DefaultLimit>>,
      <<Str(tSaved), Str(<<"b">>), DefaultLimit>> }

(* ---------------------------- responses -------------------------------- *)
(* req: the request's inputs; body: the public-form documents returned;
   applied: whether the handler changed the collection *)
Resp(op, req, code, detail, body, applied) ==
    [op |-> op, req |-> req, code |-> code, detail |-> detail,
     body |-> body, applied |-> applied]

NoResp == Resp("none", <<>>, 0, "", <<>>, FALSE)

Init ==
    /\ dbConfigured \in BOOLEAN
    /\ docs = <<>>
    /\ nextId = 1
    /\ now = 0
    /\ resp = NoResp
    /\ pending = Null
    /\ deleted = {}
    /\ updated = {}
    /\ created = <<>>

(* ---------------------------- handlers --------------------------------- *)
list_applications(status, q, limit) ==
    /\ resp' =
          IF ~dbConfigured
          THEN Resp("list", <<status, q, limit>>, 500, "Database not configured",
                    <<>>, FALSE)
          ELSE Resp("list", <<status, q, limit>>, 200, "",
                    PublicAll(get_documents(docs, status, q, limit)), FALSE)
    /\ UNCHANGED <<dbConfigured, docs, nextId, now, pending, deleted, updated, created>>

create_application(payload) ==
    /\ nextId <= MaxDocs
    /\ IF ~ValidCreate(payload)
       THEN /\ resp' = Resp("create", payload, 422, "validation error", <<>>, FALSE)
            /\ UNCHANGED <<docs, nextId, created>>
       ELSE IF ~dbConfigured
       THEN /\ resp' = Resp("create", payload, 400, "Database not available", <<>>, FALSE)
            /\ UNCHANGED <<docs, nextId, created>>
       ELSE LET ds == create_document(docs, CreateDump(payload), nextId)
                doc == find_one(ds, Oid(nextId))
            IN  /\ docs' = ds
                /\ nextId' = nextId + 1
                /\ resp' = Resp("create", payload, 201, "", <<to_public(doc)>>, TRUE)
                /\ created' = Append(created, to_public(doc)["id"])
    /\ UNCHANGED <<dbConfigured, now, pending, deleted, updated>>

NoFields_never(ud) == FALSE

(* "if not update_dict" *)
NoFields(ud) == DOMAIN ud = {}

with_updated_at_omitted(ud, t) == ud

(* update_dict["updated_at"] = datetime.utcnow() *)
with_updated_at(ud, t) == SetFields(ud, "updated_at" :> Dt(t))

(* the checks of update_application that answer before any store call:
   the body's validation (by the framework), the store handle, the empty
   update, the identifier's parse. "" when none of them answers. *)
update_precheck(app_id, payload) ==
    IF ~ValidUpdate(payload) THEN <<422, "validation error">>
    ELSE IF ~dbConfigured THEN <<500, "Database not configured">>
    ELSE IF NoFields(update_dict(payload)) THEN <<400, "No fields to update">>
    ELSE IF ~WellFormed(app_id) THEN <<400, "not a valid ObjectId">>
    ELSE IF matched_count(docs, ObjectId(app_id)) = 0
         THEN <<404, "Application not found">>
    ELSE <<0, "">>

(* find_one, then to_public: to_public(None) raises, and the handler's
   "except Exception" answers 400 *)
update_reply(ds, app_id, payload) ==
    LET doc == find_one(ds, ObjectId(app_id))
    IN  IF doc = Null
        THEN Resp("update", <<app_id, payload>>, 400,
                  "'NoneType' object is not iterable", <<>>, TRUE)
        ELSE Resp("update", <<app_id, payload>>, 200, "", <<to_public(doc)>>, TRUE)

(* the clock read by datetime.utcnow(): it does not run backwards *)
ClockReads == {t \in {now, now + 1} : t <= MaxClock}

update_application(app_id, payload) ==
    LET pre == update_precheck(app_id, payload)
    IN
    /\ IF pre[1] # 0
       THEN /\ resp' = Resp("update", <<app_id, payload>>, pre[1], pre[2],
                            <<>>, FALSE)
            /\ UNCHANGED <<docs, now, updated>>
       ELSE \E t \in ClockReads :
            /\ docs' = update_one(docs, ObjectId(app_id),
                                  with_updated_at(update_dict(payload), t))
            /\ now' = t
            /\ resp' = update_reply(docs', app_id, payload)
            /\ updated' = IF resp'.code = 200 THEN updated \cup {app_id}
                          ELSE updated
    /\ UNCHANGED <<dbConfigured, nextId, pending, deleted, created>>

delete_application(app_id) ==
    /\ IF ~dbConfigured
       THEN /\ resp' = Resp("delete", app_id, 500, "Database not configured",
                            <<>>, FALSE)
            /\ UNCHANGED <<docs, deleted>>
       ELSE IF ~WellFormed(app_id)
       THEN /\ resp' = Resp("delete", app_id, 400, "not a valid ObjectId", <<>>, FALSE)
            /\ UNCHANGED <<docs, deleted>>
       ELSE IF deleted_count(docs, ObjectId(app_id)) = 0
       THEN /\ resp' = Resp("delete", app_id, 404, "Application not found",
                            <<>>, FALSE)
            /\ UNCHANGED <<docs, deleted>>
       ELSE /\ docs' = delete_one(docs, ObjectId(app_id))
            /\ resp' = Resp("delete", app_id, 204, "", <<>>, TRUE)
            /\ deleted' = deleted \cup {app_id}
    /\ UNCHANGED <<dbConfigured, nextId, now, pending, updated, created>>

(* update_application in two steps, for requests served concurrently: up to
   and including update_one, then find_one and the response *)
update_write(app_id, payload) ==
    LET pre == update_precheck(app_id, payload)
    IN
    /\ pending = Null
    /\ IF pre[1] # 0
       THEN /\ resp' = Resp("update", <<app_id, payload>>, pre[1], pre[2],
                            <<>>, FALSE)
            /\ UNCHANGED <<docs, now, pending>>
       ELSE \E t \in ClockReads :
            /\ docs' = update_one(docs, ObjectId(app_id),
                                  with_updated_at(update_dict(payload), t))
            /\ now' = t
            /\ pending' = [app_id |-> app_id, payload |-> payload]
            /\ UNCHANGED resp
    /\ UNCHANGED <<dbConfigured, nextId, deleted, updated, created>>

update_read ==
    /\ pending # Null
    /\ resp' = update_reply(docs, pending.app_id, pending.payload)
    /\ updated' = IF resp'.code = 200 THEN updated \cup {pending.app_id} ELSE updated
    /\ pending' = Null
    /\ UNCHANGED <<dbConfigured, docs, nextId, now, deleted, created>>

(* ---------------------------- specifications --------------------------- *)
Next ==
    \/ \E i \in ListInputs : list_applications(i[1], i[2], i[3])
    \/ \E p \in CreatePayloads : create_application(p)
    \/ \E i \in UpdateInputs : update_application(i[1], i[2])
    \/ \E a \in AppIds : delete_application(a)

Spec == Init /\ [][Next]_vars

ConcNext ==
    \/ \E p \in CreatePayloads : create_application(p)
    \/ \E i \in UpdateInputs : update_application(i[1], i[2])
    \/ \E a \in AppIds : delete_application(a)
    \/ \E i \in UpdateInputs : update_write(i[1], i[2])
    \/ update_read

ConcSpec == Init /\ [][ConcNext]_vars

(* ---------------------------- properties ------------------------------- *)
(* In Spec every step is one whole request and sets resp to that request's
   response, so in a step that changes the state resp' describes the step. *)

(* the stored document a well-formed identifier names, or None *)
Stored(ds, app_id) == IF WellFormed(app_id) THEN find_one(ds, ObjectId(app_id)) ELSE Null

(* the declared fields a payload carries, null-valued ones included *)
FieldsSent(p) == DOMAIN p \cap Fields

PublicIds(ds) == {OidStr(ds[i]["_id"]) : i \in 1..Len(ds)}

(* C2: with a configured store, an Update whose payload sets zero fields
   answers 400 "No fields to update" for every identifier (matching a
   document, matching none, malformed) and leaves the collection unchanged. *)
C2_EmptyUpdateRejected ==
    [][ (resp'.op = "update" /\ dbConfigured /\ FieldsSent(resp'.req[2]) = {})
          => /\ resp'.code = 400
             /\ resp'.detail = "No fields to update"
             /\ docs' = docs ]_vars

C2_Witness ==
    /\ resp.op = "update"
    /\ FieldsSent(resp.req[2]) = {}
    /\ resp.req[1] \in BadIds
    /\ resp.code = 400
    /\ Len(docs) > 0

(* C3: a Delete on an existing document answers 204 and removes exactly that
   document; a Delete on an identifier no document has answers 404 and
   leaves the collection unchanged, in particular the Delete that directly
   follows a successful Delete of the same identifier; a deleted identifier
   is never again stored nor returned by List. *)
C3_DeleteTwice ==
    [][ /\ (resp'.op = "delete" /\ dbConfigured /\ WellFormed(resp'.req))
            => IF Stored(docs, resp'.req) # Null
               THEN /\ resp'.code = 204
                    /\ PublicIds(docs') = PublicIds(docs) \ {resp'.req}
                    /\ \A i \in 1..Len(docs') : \E j \in 1..Len(docs) : docs'[i] = docs[j]
                    /\ Len(docs') = Len(docs) - 1
               ELSE resp'.code = 404 /\ docs' = docs
        /\ (resp.op = "delete" /\ resp.code = 204 /\ resp'.op = "delete"
               /\ resp'.req = resp.req)
            => resp'.code = 404 /\ docs' = docs
        /\ PublicIds(docs') \cap deleted' = {}
        /\ resp'.op = "list"
            => \A i \in 1..Len(resp'.body) : resp'.body[i]["id"].v \notin deleted' ]_vars

C3_Witness ==
    /\ resp.op = "delete"
    /\ resp.code = 404
    /\ resp.req \in deleted
    /\ Len(docs) > 0

(* C4: every document returned by Create or List has under "id" a non-empty
   text and has no "_id" key; the identifiers returned by distinct Creates
   are pairwise distinct; an Update changes no stored identifier. *)
C4_PublicIdentifiers ==
    [][ /\ resp'.op \in {"create", "list"}
            => \A i \in 1..Len(resp'.body) :
                  /\ "id" \in DOMAIN resp'.body[i]
                  /\ "_id" \notin DOMAIN resp'.body[i]
                  /\ resp'.body[i]["id"].t = "str"
                  /\ Len(resp'.body[i]["id"].v) > 0
        /\ \A i, j \in 1..Len(created') : i # j => created'[i] # created'[j]
        /\ resp'.op = "update"
            => /\ Len(docs') = Len(docs)
               /\ \A i \in 1..Len(docs) : docs'[i]["_id"] = docs[i]["_id"] ]_vars

C4_Witness ==
    /\ resp.op = "list"
    /\ Len(resp.body) = 2
    /\ resp.body[1]["id"] # resp.body[2]["id"]
    /\ updated # {}
    /\ Len(created) = 2

(* C9: a stored document has updated_at exactly when an Update on its
   identifier has succeeded; the value is a timestamp of the handler's clock,
   never a value the client sent; after a successful Update it is the time
   the handler read; Create returns and stores no updated_at. *)
C9_UpdatedAt ==
    /\ \A i \in 1..Len(docs) :
          /\ ("updated_at" \in DOMAIN docs[i]) <=> (OidStr(docs[i]["_id"]) \in updated)
          /\ "updated_at" \in DOMAIN docs[i]
                => docs[i]["updated_at"].t = "datetime" /\ docs[i]["updated_at"].v <= now
    /\ (resp.op = "update" /\ resp.code = 200)
          => Stored(docs, resp.req[1])["updated_at"] = Dt(now)
    /\ (resp.op = "create" /\ resp.code = 201)
          => "updated_at" \notin DOMAIN resp.body[1]

C9_Witness ==
    /\ Len(docs) = 2
    /\ "updated_at" \in DOMAIN docs[1]
    /\ "updated_at" \notin DOMAIN docs[2]
    /\ "updated_at" \in DOMAIN resp.req[2]
    /\ resp.op = "update"
    /\ resp.code = 200
    /\ now > 0

(* C1: an Update on a stored document whose payload carries exactly one
   declared field f, with a value v of f's type or null, answers 200; the
   stored document then has f = v and updated_at = the time read, its other
   fields and the other documents are as before. *)
C1_OneFieldUpdate ==
    [][ \A f \in Fields :
          (/\ resp'.op = "update"
           /\ dbConfigured
           /\ FieldsSent(resp'.req[2]) = {f}
           /\ ValidUpdate(resp'.req[2])
           /\ Stored(docs, resp'.req[1]) # Null)
          => /\ resp'.code = 200
             /\ Len(docs') = Len(docs)
             /\ \A i \in 1..Len(docs) :
                   IF OidStr(docs[i]["_id"]) = resp'.req[1]
                   THEN /\ docs'[i][f] = resp'.req[2][f]
                        /\ Get(docs'[i], "updated_at") = Dt(now')
                        /\ \A k \in DOMAIN docs[i] \ {f, "updated_at"} :
                              k \in DOMAIN docs'[i] /\ docs'[i][k] = docs[i][k]
                   ELSE docs'[i] = docs[i] ]_vars

(* C5: in an Update, a declared field sent as null is a field that is set: the
   request is not rejected as empty and the stored field becomes null, while
   the fields the payload does not carry keep their values. *)
C5_NullIsSet ==
    [][ (/\ resp'.op = "update"
         /\ dbConfigured
         /\ ValidUpdate(resp'.req[2])
         /\ Stored(docs, resp'.req[1]) # Null
         /\ \E k \in FieldsSent(resp'.req[2]) :
               resp'.req[2][k] = Null /\ Stored(docs, resp'.req[1])[k] # Null)
        => /\ resp'.code = 200
           /\ \A k \in Fields :
                 LET was == Stored(docs, resp'.req[1])
                     is == Stored(docs', resp'.req[1])
                 IN  IF k \in FieldsSent(resp'.req[2])
                     THEN is[k] = resp'.req[2][k]
                     ELSE is[k] = was[k] ]_vars

(* C6: every stored salary_min is null or a non-negative number. *)
C6_SalaryNonNegative ==
    \A i \in 1..Len(docs) :
        \/ docs[i]["salary_min"] = Null
        \/ docs[i]["salary_min"].t = "num" /\ docs[i]["salary_min"].v >= 0

NonEmptyText(p, k) == k \in DOMAIN p /\ p[k].t = "str" /\ Len(p[k].v) > 0

(* C7: with a configured store, a Create whose company or position is missing
   or is the empty text is refused with a validation error and inserts
   nothing. *)
C7_CreateNonEmpty ==
    (/\ resp.op = "create"
     /\ dbConfigured
     /\ ~(NonEmptyText(resp.req, "company") /\ NonEmptyText(resp.req, "position")))
        => resp.code = 422 /\ ~resp.applied

(* C8: with a configured store List answers 200, and every document returned
   has the status asked for (when one is) and contains the query text q (when
   one is given), compared without regard to case, in its company, position
   or notes or in one of its tags. *)
ContainsText(q, x) ==
    /\ x.t = "str"
    /\ \E i \in 1..(Len(x.v) - Len(q) + 1) :
          \A j \in 1..Len(q) : Lower(q[j]) = Lower(x.v[i + j - 1])

C8_ListFilter ==
    (resp.op = "list" /\ dbConfigured)
        => /\ resp.code = 200
           /\ \A i \in 1..Len(resp.body) :
                 LET d == resp.body[i]
                     s == resp.req[1]
                     q == resp.req[2]
                 IN  /\ Supplied(s) => d["status"] = s
                     /\ Supplied(q) =>
                           \/ ContainsText(q.v, d["company"])
                           \/ ContainsText(q.v, d["position"])
                           \/ ContainsText(q.v, d["notes"])
                           \/ \E t \in 1..Len(d["tags"].v) :
                                  ContainsText(q.v, d["tags"].v[t])

(* C10: with requests served concurrently, an Update that answers 400 or 404
   changed nothing in the collection, and one that answers 200 returns a
   document holding the values its payload set. *)
C10_UpdateAllOrNothing ==
    resp.op = "update"
        => /\ resp.code \in {400, 404} => ~resp.applied
           /\ resp.code = 200
                 => \A k \in DOMAIN update_dict(resp.req[2]) :
                       resp.body[1][k] = resp.req[2][k]

====
